---- MODULE Spec2Model ----
(***************************************************************************)
(* A model of the asynchronous resilience combinators of fizzwiz/fluent    *)
(* (src/src/main/core/AsyncWhat.js): AsyncWhat.retry, AsyncWhat.within and *)
(* AsyncWhat.when, as state machines over promises, timers and events.     *)
(*                                                                         *)
(* Time is discrete.  A timer holds the delay that is left to it; Tick     *)
(* lets one unit of time pass for every pending timer, and a timer whose   *)
(* delay is used up fires before time passes again.  A wrapped function    *)
(* that is in flight settles at any moment, whatever the clock says.       *)
(***************************************************************************)
EXTENDS Integers, Sequences, FiniteSets, Bags

\* ------------------------------------------------------------------ bounds

\* The largest finite ntimes a retry wrapper is built with.
MaxAttempts == 3
\* The wrapped function is invoked at most this often by one retry invocation
\* (the cap on an unbounded retry loop).
MaxCalls == 4
\* The events one emitter emits for one gate.
MaxEvents == 2
\* The largest timeoutMs of a timeout wrapper or of an event gate.
MaxTimeout == 2

\* The invocations of one wrapper that the model follows.
Invocations == {1, 2}

\* ------------------------------------------------------------------ values

\* JavaScript's Infinity, the default of ntimes and of maxDelay.
Infinity == -1

\* A timer that is not pending (never set, cleared, or fired).
NoTimer == -1

\* The values a promise settles with: <<kind, tag, n>>.
Null == <<"null", "", 0>>

Undefined == <<"undefined", "", 0>>

\* The value the wrapped function returns from its n-th call.
Val(n) == <<"value", "", n>>

\* The error the wrapped function raises in its n-th call.
Err(n) == <<"error", "", n>>

\* new Error("Retry stopped by user")
StopError == <<"Error", "Retry stopped by user", 0>>

\* The template string of an error message that quotes the number ms.
Template(ms) == <<"string", ms>>

\* new TimeoutError(millis): name "TimeoutError", field millis.
TimeoutError(millis) == <<"TimeoutError", millis[1], millis[2]>>

LessThan(a, b) == IF b = Infinity THEN a # Infinity ELSE a # Infinity /\ a < b

Min(a, b) == IF LessThan(a, b) THEN a ELSE b

RECURSIVE Pow(_, _)
Pow(b, e) == IF e = 0 THEN 1 ELSE b * Pow(b, e - 1)

\* A promise settles once: resolve and reject of a settled promise do nothing.
Settle(r, st, value) ==
    IF r.st \in {"resolved", "rejected"} THEN r
    ELSE [r EXCEPT !.st = st, !.result = value]

\* ------------------------------------------------------------------ state

VARIABLES
    \* AsyncWhat.retry: the wrapper's parameters and its closure variable
    ntimes, baseDelay, factor, maxDelay, stopped,
    \* AsyncWhat.retry: per invocation, the promise p, attemptIndex, lastError,
    \* the pending setTimeout and the calls of the wrapped function f
    retry,
    \* AsyncWhat.within: the wrapper's timeoutMs and, per invocation, the promise
    \* of the race, the call of fn and the pending setTimeout
    timeoutMs, within,
    \* AsyncWhat.when: what each gate wraps ("plain": an asynchronous function,
    \* "cyclic": the retry wrapper, "gate": the gate below it)
    wraps,
    \* AsyncWhat.when: per gate, its parameters start and timeoutMs, the promise
    \* of its invocation, its listener on the emitter, its timer, and the
    \* listener's activations, one per event emitted
    gate,
    \* the plain wrapped function of a gate: its property stopped and its calls
    plain,
    \* What / AsyncWhat: one evaluation of a function built by if() or else(),
    \* with its inputs, the calls it has made and its outcome
    what,
    \* Path: the chains a program has built, each with the call that built it
    held,
    \* What.each: one call of the function it returns, with its result
    expand,
    \* a search over chains: the step function that spans the space, the chains
    \* generated so far (how often each) and those not expanded yet
    space, generated, frontier,
    \* Each.when(): the synchronous source, its promises, the asynchronous
    \* generator and the consumer's requests and deliveries
    bridge,
    \* Each: a sequence built over a source, with its traversals, or the two
    \* values of one call of Each.equal
    each

vars ==
    <<ntimes, baseDelay, factor, maxDelay, stopped, retry, timeoutMs, within,
      wraps, gate, plain, what, held, expand, space, generated,
      frontier, bridge, each>>

retryParams == <<ntimes, baseDelay, factor, maxDelay>>

withinVars == <<timeoutMs, within>>

gateVars == <<wraps, gate, plain>>

\* The state of the synchronous combinators and of the sequences.
pureVars == <<what, held, expand, space, generated, frontier, bridge, each>>

\* The state of the asynchronous combinators.
asyncVars ==
    <<ntimes, baseDelay, factor, maxDelay, stopped, retry, timeoutMs, within,
      wraps, gate, plain>>

searchVars == <<expand, space, generated, frontier>>

\* ------------------------------------------------------------------ AsyncWhat.retry

\* An invocation of the retry wrapper that has not been made yet.
RetryIdle ==
    [st |-> "idle", result |-> Null, attemptIndex |-> 0, lastError |-> Null,
     timer |-> NoTimer, calls |-> 0, log |-> <<>>]

\* const delay = Math.min(baseDelay * factor ** (attemptIndex - 1), maxDelay)
DelayFromAttemptIndex(n) == Min(baseDelay * Pow(factor, n), maxDelay)

Delay(n) == Min(baseDelay * Pow(factor, n - 1), maxDelay)

\* attemptIndex < ntimes && !stopped
CanRetryEarlyStop(n, stop) == LessThan(n + 1, ntimes) /\ ~stop

CanRetry(n, stop) == LessThan(n, ntimes) /\ ~stop

\* lastError = err
RecordFirstError(last, err) == IF last = Null THEN err ELSE last

RecordError(last, err) == err

\* tryOnce, up to its await: the stop check, then the call of f.
TryOnceUnchecked(r, stop) ==
    [r EXCEPT !.st = "attempt", !.calls = @ + 1, !.timer = NoTimer]

TryOnce(r, stop) ==
    IF stop THEN [Settle(r, "rejected", StopError) EXCEPT !.timer = NoTimer]
    ELSE [r EXCEPT !.st = "attempt", !.calls = @ + 1, !.timer = NoTimer]

\* tryOnce after its await, f having returned: resolve(result).
OnSuccess(r) ==
    [Settle(r, "resolved", Val(r.calls)) EXCEPT !.log = Append(@, "ok")]

\* tryOnce after its await, f having thrown: the catch block.
OnFailure(r, stop) ==
    LET err == Err(r.calls)
        last == RecordError(r.lastError, err)
        n == r.attemptIndex + 1
        r1 == [r EXCEPT !.lastError = last, !.attemptIndex = n,
                        !.log = Append(@, "fail")]
    IN  IF CanRetry(n, stop)
        THEN [r1 EXCEPT !.st = "backoff", !.timer = Delay(n)]
        ELSE Settle(r1, "rejected", IF stop THEN StopError ELSE last)

\* got(ctx): a new promise, and the first attempt at once.
RetryCallOwnFlag(i) ==
    /\ retry[i].st = "idle"
    /\ retry' = [retry EXCEPT ![i] = TryOnce(RetryIdle, FALSE)]
    /\ UNCHANGED <<pureVars, retryParams, stopped, withinVars, gateVars>>

RetryCall(i) ==
    /\ retry[i].st = "idle"
    /\ retry' = [retry EXCEPT ![i] = TryOnce(RetryIdle, stopped)]
    /\ UNCHANGED <<pureVars, retryParams, stopped, withinVars, gateVars>>

\* The call of f that is in flight returns or throws.
FSettle(i) ==
    /\ retry[i].st = "attempt"
    /\ \E ok \in BOOLEAN :
        retry' = [retry EXCEPT ![i] =
                    IF ok THEN OnSuccess(@) ELSE OnFailure(@, stopped)]
    /\ UNCHANGED <<pureVars, retryParams, stopped, withinVars, gateVars>>

\* setTimeout(tryOnce, delay) fires.
RetryTimerFire(i) ==
    /\ retry[i].st = "backoff"
    /\ retry[i].timer = 0
    /\ stopped \/ retry[i].calls < MaxCalls
    /\ retry' = [retry EXCEPT ![i] = TryOnce(@, stopped)]
    /\ UNCHANGED <<pureVars, retryParams, stopped, withinVars, gateVars>>

\* The caller sets retried.stopped = true.
SetStopped ==
    /\ ~stopped
    /\ stopped' = TRUE
    /\ UNCHANGED <<pureVars, retryParams, retry, withinVars, gateVars>>

\* ------------------------------------------------------------------ AsyncWhat.within

\* error = new TimeoutError(`Operation timed out after ${timeoutMs}ms`)
WithinError == TimeoutError(Template(timeoutMs))

\* An invocation of the timeout wrapper that has not been made yet.
WithinIdle == [st |-> "idle", result |-> Null, fn |-> "idle", timer |-> NoTimer]

\* Promise.race: the first of fn(ctx) and the timer to settle settles the race.
RaceLastWins(w, st, value) == [w EXCEPT !.st = st, !.result = value]

Race(w, st, value) == Settle(w, st, value)

\* got(ctx): fn(ctx) is called and the timer is set.
WithinCall(j) ==
    /\ within[j].st = "idle"
    /\ within' = [within EXCEPT ![j] =
                    [@ EXCEPT !.st = "pending", !.fn = "running", !.timer = timeoutMs]]
    /\ UNCHANGED <<pureVars, timeoutMs, retryParams, stopped, retry, gateVars>>

\* fn(ctx) settles: the race settles with it if it is first, and the finally
\* block clears the timer; after the timer it settles on its own.
FnSettle(j) ==
    /\ within[j].fn = "running"
    /\ \E ok \in BOOLEAN :
        within' = [within EXCEPT ![j] =
            LET w == [@ EXCEPT !.fn = IF ok THEN "returned" ELSE "threw"]
                raced == Race(w, IF ok THEN "resolved" ELSE "rejected",
                                 IF ok THEN Val(j) ELSE Err(j))
            IN  IF @.st = "pending" THEN [raced EXCEPT !.timer = NoTimer]
                ELSE raced]
    /\ UNCHANGED <<pureVars, timeoutMs, retryParams, stopped, retry, gateVars>>

\* The timer fires: reject(error); fn(ctx) is left running.
WithinTimerFire(j) ==
    /\ within[j].timer = 0
    /\ within' = [within EXCEPT ![j] =
                    [Race(@, "rejected", WithinError) EXCEPT !.timer = NoTimer]]
    /\ UNCHANGED <<pureVars, timeoutMs, retryParams, stopped, retry, gateVars>>

\* ------------------------------------------------------------------ AsyncWhat.when

\* A gate whose wrapper has not been called yet.
GateIdle(start, ms) ==
    [start |-> start, timeoutMs |-> ms, st |-> "idle", result |-> Null,
     listening |-> FALSE, on |-> 0, off |-> 0, timer |-> NoTimer, acts |-> <<>>]

\* predicate(...args, emitter): decided by the arguments of the event.
Predicate(arg) ==
    CASE arg[1] = "match" -> "truthy"
      [] arg[1] = "throws" -> "throws"
      [] OTHER -> "falsy"

\* The error a predicate raises on the n-th event.
PredicateError(arg) == <<"error", "predicate", arg[2]>>

\* new TimeoutError(`Event "${event}" timed out after ${timeoutMs}ms`)
GateError(r) == TimeoutError(Template(r.timeoutMs))

\* emitter.on(event, listener), and setTimeout if timeoutMs > 0.
ListenNoTimer(r) ==
    [r EXCEPT !.st = "pending", !.listening = TRUE, !.on = @ + 1]

Listen(r) ==
    [r EXCEPT !.st = "pending", !.listening = TRUE, !.on = @ + 1,
              !.timer = IF r.timeoutMs > 0 THEN r.timeoutMs ELSE NoTimer]

\* cleanup(): clearTimeout(timeoutId) and emitter.off(event, listener).
Cleanup(r) ==
    [r EXCEPT !.timer = NoTimer, !.listening = FALSE, !.off = @ + 1]

\* if (start) resolve(await f(...args, emitter)); else resolve()
InvokesAlways(matched, start) == matched

Invokes(matched, start) == matched /\ start

\* The function whose stopped property gate g sets: a gate hands the
\* assignment on to what it wraps.
RECURSIVE Owner(_)
Owner(g) == IF wraps[g] = "gate" THEN Owner(g - 1) ELSE wraps[g]

\* The gates whose wrappers run when the wrapper of gate g is called: a gate
\* in stop mode calls what it wraps at once.
RECURSIVE Called(_)
Called(g) ==
    {g} \cup (IF ~gate[g].start /\ wraps[g] = "gate" THEN Called(g - 1) ELSE {})

\* The invocation of the retry wrapper that a call of it starts.
FreeInvocation == CHOOSE i \in DOMAIN retry :
    /\ retry[i].st = "idle"
    /\ \A h \in DOMAIN retry : retry[h].st = "idle" => i <= h

\* f(...): one more call of the plain function, in flight.
PlainCalled(p, arg, by) ==
    [p EXCEPT !.calls = Append(@, [arg |-> arg, by |-> by, st |-> "running"])]

\* The wrapper of the outermost gate is called: if (!start) f(...aa), then
\* the listener and the timer are set up.
GateCall(g) ==
    /\ g = Len(gate)
    /\ gate[g].st = "idle"
    /\ LET e == CHOOSE h \in Called(g) : \A k \in Called(g) : h <= k
       IN
       /\ gate' = [h \in DOMAIN gate |->
                      IF h \in Called(g) THEN Listen(gate[h]) ELSE gate[h]]
       /\ IF ~gate[e].start /\ wraps[e] = "plain"
          THEN plain' = PlainCalled(plain, <<"call", 0>>, <<e, 0>>)
          ELSE UNCHANGED plain
       /\ IF ~gate[e].start /\ wraps[e] = "cyclic"
          THEN /\ \E i \in DOMAIN retry : retry[i].st = "idle"
               /\ retry' = [retry EXCEPT ![FreeInvocation] =
                              TryOnce(RetryIdle, stopped)]
          ELSE UNCHANGED retry
    /\ UNCHANGED <<pureVars, retryParams, stopped, withinVars, wraps>>

\* emitter.emit(event, arg): the listener, if it is registered, starts and
\* waits for predicate(arg, emitter).
Emit(g, kind) ==
    /\ Len(gate[g].acts) < MaxEvents
    /\ LET arg == <<kind, Len(gate[g].acts) + 1>>
       IN gate' = [gate EXCEPT ![g].acts = Append(@,
                     [arg |-> arg, call |-> 0,
                      st |-> IF gate[g].listening THEN "pred" ELSE "lost"])]
    /\ UNCHANGED <<pureVars, retryParams, stopped, retry, withinVars, wraps, plain>>

\* The listener goes on after await predicate(...args, emitter).
Handle(g, k) ==
    /\ k \in DOMAIN gate[g].acts
    /\ gate[g].acts[k].st = "pred"
    /\ LET r == gate[g]
           a == r.acts[k]
           out == Predicate(a.arg)
           matched == out = "truthy"
           invoke == Invokes(matched, r.start)
       IN
       /\ invoke => wraps[g] # "gate"
       /\ (invoke /\ wraps[g] = "cyclic") => \E i \in DOMAIN retry : retry[i].st = "idle"
       /\ gate' = [gate EXCEPT ![g] =
            CASE out = "falsy" -> [r EXCEPT !.acts[k].st = "done"]
              [] out = "throws" ->
                    [Settle(Cleanup(r), "rejected", PredicateError(a.arg))
                       EXCEPT !.acts[k].st = "done"]
              [] invoke ->
                    [Cleanup(r) EXCEPT !.acts[k].st = "await",
                        !.acts[k].call = IF wraps[g] = "plain"
                                         THEN Len(plain.calls) + 1
                                         ELSE FreeInvocation]
              [] OTHER ->
                    [Settle(Cleanup(r), "resolved", Undefined)
                       EXCEPT !.acts[k].st = "done"]]
       \* f.stopped = !start, then f(...args, emitter) when starting
       /\ plain' =
            IF matched /\ Owner(g) = "plain"
            THEN LET p == [plain EXCEPT !.stopped = IF r.start THEN "false" ELSE "true"]
                 IN IF invoke THEN PlainCalled(p, a.arg, <<g, k>>) ELSE p
            ELSE plain
       /\ stopped' = IF matched /\ Owner(g) = "cyclic" THEN ~r.start ELSE stopped
       /\ retry' =
            IF invoke /\ wraps[g] = "cyclic"
            THEN [retry EXCEPT ![FreeInvocation] = TryOnce(RetryIdle, stopped')]
            ELSE retry
    /\ UNCHANGED <<pureVars, retryParams, withinVars, wraps>>

\* A call of the plain function returns or throws.
PlainSettle(c) ==
    /\ c \in DOMAIN plain.calls
    /\ plain.calls[c].st = "running"
    /\ \E ok \in BOOLEAN :
        plain' = [plain EXCEPT !.calls[c].st = IF ok THEN "returned" ELSE "threw"]
    /\ UNCHANGED <<pureVars, retryParams, stopped, retry, withinVars, wraps, gate>>

\* The outcome of the call that an activation awaits; "running" before it.
Awaited(g, a) ==
    IF wraps[g] = "plain"
    THEN CASE plain.calls[a.call].st = "returned" -> <<"resolved", Val(a.call)>>
           [] plain.calls[a.call].st = "threw" -> <<"rejected", Err(a.call)>>
           [] OTHER -> <<"running", Null>>
    ELSE IF retry[a.call].st \in {"resolved", "rejected"}
         THEN <<retry[a.call].st, retry[a.call].result>>
         ELSE <<"running", Null>>

\* The listener goes on after await f(...args, emitter): resolve with the
\* value, or cleanup() and reject with the error in the catch block.
Continue(g, k) ==
    /\ k \in DOMAIN gate[g].acts
    /\ gate[g].acts[k].st = "await"
    /\ LET r == gate[g]
           out == Awaited(g, r.acts[k])
       IN
       /\ out[1] # "running"
       /\ gate' = [gate EXCEPT ![g] =
            [(IF out[1] = "resolved" THEN Settle(r, "resolved", out[2])
              ELSE Settle(Cleanup(r), "rejected", out[2]))
               EXCEPT !.acts[k].st = "done"]]
    /\ UNCHANGED <<pureVars, retryParams, stopped, retry, withinVars, wraps, plain>>

\* The gate's timer fires: cleanup() and reject with the TimeoutError.
GateTimerFire(g) ==
    /\ gate[g].timer = 0
    /\ gate' = [gate EXCEPT ![g] = Settle(Cleanup(@), "rejected", GateError(@))]
    /\ UNCHANGED <<pureVars, retryParams, stopped, retry, withinVars, wraps, plain>>

\* ------------------------------------------------------------------ time

RetryTimers == {i \in DOMAIN retry : retry[i].timer # NoTimer}

WithinTimers == {j \in DOMAIN within : within[j].timer # NoTimer}

GateTimers == {g \in DOMAIN gate : gate[g].timer # NoTimer}

\* One unit of time passes: no pending timer is due, and each has one unit less.
Tick ==
    /\ RetryTimers \cup WithinTimers \cup GateTimers # {}
    /\ \A i \in RetryTimers : retry[i].timer > 0
    /\ \A j \in WithinTimers : within[j].timer > 0
    /\ \A g \in GateTimers : gate[g].timer > 0
    /\ retry' = [i \in DOMAIN retry |->
                    IF i \in RetryTimers
                    THEN [retry[i] EXCEPT !.timer = @ - 1] ELSE retry[i]]
    /\ within' = [j \in DOMAIN within |->
                    IF j \in WithinTimers
                    THEN [within[j] EXCEPT !.timer = @ - 1] ELSE within[j]]
    /\ gate' = [g \in DOMAIN gate |->
                    IF g \in GateTimers
                    THEN [gate[g] EXCEPT !.timer = @ - 1] ELSE gate[g]]
    /\ UNCHANGED <<pureVars, retryParams, stopped, timeoutMs, wraps, plain>>

\* ------------------------------------------------------------------ specifications

\* No retry wrapper is built.
RetryUnused ==
    /\ ntimes = Infinity
    /\ baseDelay = 1
    /\ factor = 1
    /\ maxDelay = Infinity
    /\ stopped = FALSE
    /\ retry = <<>>

\* No timeout wrapper is built.
WithinUnused ==
    /\ timeoutMs = 0
    /\ within = <<>>

\* The plain function f before any call: f.stopped is not defined.
PlainIdle == [stopped |-> "undefined", calls |-> <<>>]

\* No event gate is built.
GateUnused ==
    /\ wraps = <<>>
    /\ gate = <<>>
    /\ plain = PlainIdle

\* No function is built by if() or else().
WhatUnused == what = <<>>

\* No chain is built.
PathUnused == held = <<>>

\* No search is under way.
SearchUnused ==
    /\ expand = <<>>
    /\ space = <<>>
    /\ generated = <<>>
    /\ frontier = {}

\* No sequence is bridged.
BridgeUnused == bridge = <<>>

\* No sequence is built or compared.
EachUnused == each = <<>>

\* No synchronous combinator and no sequence is in use.
PureUnused ==
    /\ WhatUnused
    /\ PathUnused
    /\ SearchUnused
    /\ BridgeUnused
    /\ EachUnused

\* AsyncWhat.retry(f, ntimes, baseDelay, factor, maxDelay), invoked twice.
InitRetry ==
    /\ ntimes \in (1..MaxAttempts) \cup {Infinity}
    /\ baseDelay \in {1, 2}
    /\ factor \in {1, 2}
    /\ maxDelay \in {2, Infinity}
    /\ stopped = FALSE
    /\ retry = [i \in Invocations |-> RetryIdle]
    /\ WithinUnused
    /\ GateUnused
    /\ PureUnused

NextRetry ==
    \/ \E i \in Invocations : RetryCall(i)
    \/ \E i \in Invocations : FSettle(i)
    \/ \E i \in Invocations : RetryTimerFire(i)
    \/ SetStopped
    \/ Tick

SpecRetry == InitRetry /\ [][NextRetry]_vars

\* AsyncWhat.within(timeoutMs, fn), invoked twice.
InitWithin ==
    /\ timeoutMs \in 0..MaxTimeout
    /\ within = [j \in Invocations |-> WithinIdle]
    /\ RetryUnused
    /\ GateUnused
    /\ PureUnused

NextWithin ==
    \/ \E j \in Invocations : WithinCall(j)
    \/ \E j \in Invocations : FnSettle(j)
    \/ \E j \in Invocations : WithinTimerFire(j)
    \/ Tick

SpecWithin == InitWithin /\ [][NextWithin]_vars

\* The arguments an event is emitted with: they satisfy the predicate, fail
\* it, or make it throw.
EventKinds == {"match", "other", "throws"}

\* AsyncWhat.when(predicate, f, emitter, event, timeoutMs, start) around a
\* plain asynchronous function f, called once.
InitGate ==
    /\ wraps = <<"plain">>
    /\ \E start \in BOOLEAN, ms \in 0..MaxTimeout : gate = <<GateIdle(start, ms)>>
    /\ plain = PlainIdle
    /\ RetryUnused
    /\ WithinUnused
    /\ PureUnused

NextGate ==
    \/ GateCall(1)
    \/ \E kind \in EventKinds : Emit(1, kind)
    \/ \E k \in 1..MaxEvents : Handle(1, k)
    \/ \E c \in 1..(MaxEvents + 1) : PlainSettle(c)
    \/ \E k \in 1..MaxEvents : Continue(1, k)
    \/ GateTimerFire(1)
    \/ Tick

SpecGate == InitGate /\ [][NextGate]_vars

\* bounded = cyclic.when(isStart, emitter, "start", ms, true)
\*                 .when(isStop, emitter, "stop", ms, false),
\* cyclic being a retry wrapper without a bound; bounded is called once.
InitBounded ==
    /\ wraps = <<"cyclic", "gate">>
    /\ \E ms \in {0, MaxTimeout} : gate = <<GateIdle(TRUE, ms), GateIdle(FALSE, ms)>>
    /\ plain = PlainIdle
    /\ ntimes = Infinity
    /\ baseDelay = 1
    /\ factor = 1
    /\ maxDelay = Infinity
    /\ stopped = FALSE
    /\ retry = [i \in Invocations |-> RetryIdle]
    /\ WithinUnused
    /\ PureUnused

NextBounded ==
    \/ GateCall(2)
    \/ \E g \in {1, 2}, kind \in {"match", "other"} : Emit(g, kind)
    \/ \E g \in {1, 2}, k \in 1..MaxEvents : Handle(g, k)
    \/ \E k \in 1..MaxEvents : Continue(1, k)
    \/ \E g \in {1, 2} : GateTimerFire(g)
    \/ \E i \in Invocations : FSettle(i)
    \/ \E i \in Invocations : RetryTimerFire(i)
    \/ Tick

SpecBounded == InitBounded /\ [][NextBounded]_vars

\* ------------------------------------------------------------------ claims: retry

AllFail(log) == \A n \in 1..Len(log) : log[n] = "fail"

\* C1: when f fails on its first k attempts and succeeds on attempt k+1, the
\* invocation is resolved with the value of that (k+1)-th call and f has been
\* called k+1 times, never again after the success; and while stopped is not
\* set the wrapper does not give up (reject) before ntimes attempts were made,
\* so that a success on an attempt k+1 <= ntimes is always reached.
C1_RetrySuccess ==
    \A i \in DOMAIN retry :
        LET r == retry[i] IN
        /\ (\E n \in 1..Len(r.log) : r.log[n] = "ok") =>
              /\ r.log[Len(r.log)] = "ok"
              /\ AllFail(SubSeq(r.log, 1, Len(r.log) - 1))
              /\ r.st = "resolved"
              /\ r.result = Val(Len(r.log))
              /\ r.calls = Len(r.log)
        /\ (r.st = "rejected" /\ ~stopped) => ~LessThan(r.calls, ntimes)

C1_Witness ==
    \E i \in DOMAIN retry :
        /\ ~stopped
        /\ retry[i].log = <<"fail", "fail", "ok">>
        /\ retry[i].st = "resolved"
        /\ retry[i].result = Val(3)

\* C2: with ntimes >= 1, stopped never set and f failing on every attempt, the
\* invocation rejects after exactly ntimes calls of f, with the error of the
\* last (ntimes-th) call; f is never called more than ntimes times.
C2_RetryExhaustion ==
    \A i \in DOMAIN retry :
        LET r == retry[i] IN
        /\ ntimes # Infinity => r.calls <= ntimes
        /\ (r.st = "rejected" /\ ~stopped) =>
              /\ ntimes # Infinity
              /\ AllFail(r.log)
              /\ r.calls = ntimes
              /\ r.result = Err(ntimes)

C2_Witness ==
    \E i \in DOMAIN retry :
        /\ ~stopped
        /\ ntimes = 3
        /\ retry[i].st = "rejected"
        /\ retry[i].calls = 3

\* An invocation whose retry loop has been started and has not settled.
InLoop(r) == r.st \in {"attempt", "backoff"}

RejectedByStop(r) == r.st = "rejected" /\ r.result = StopError

\* C3 as claimed: in an unbounded retry loop, once stopped is set f is never
\* called again, and as soon as one unit of time has passed with the flag set
\* every started invocation has rejected with the stop error, whatever delay
\* was left to its backoff timer.
C3_StopWithinOneTick ==
    [][(ntimes = Infinity /\ stopped) =>
          \A i \in DOMAIN retry :
             /\ retry'[i].calls = retry[i].calls
             /\ (InLoop(retry[i]) /\ retry[i].timer > 0
                   /\ retry'[i].timer = retry[i].timer - 1)
                => RejectedByStop(retry'[i])]_vars

\* C3 as amended: once stopped is set f is never called again, and a started
\* invocation rejects with the stop error at its next checkpoint: when its
\* backoff timer fires, or when the attempt in flight fails; an attempt in
\* flight that succeeds still resolves the invocation with its value.
C3_StopAtCheckpoint ==
    [][stopped =>
          \A i \in DOMAIN retry :
             /\ retry'[i].calls = retry[i].calls
             /\ (retry[i].st = "backoff" /\ retry'[i].st # "backoff")
                => RejectedByStop(retry'[i])
             /\ (retry[i].st = "attempt" /\ retry'[i].st # "attempt")
                => \/ RejectedByStop(retry'[i])
                   \/ /\ retry'[i].st = "resolved"
                      /\ retry'[i].result = Val(retry[i].calls)]_vars

C3_Witness ==
    \E i \in DOMAIN retry :
        /\ ntimes = Infinity
        /\ stopped
        /\ retry[i].attemptIndex >= 2
        /\ retry[i].timer = NoTimer
        /\ RejectedByStop(retry[i])

\* ------------------------------------------------------------------ claims: within

Settled(r) == r.st \in {"resolved", "rejected"}

\* C4: the timeout wrapper settles with whichever happens first.  If fn settles
\* while the race is pending, the wrapper settles with fn's value or error; if
\* the timer fires while the race is pending, the wrapper rejects with the
\* timeout error and fn is left running; whatever happens after the wrapper
\* has settled (fn settling late in particular) does not change its result.
C4_WithinRace ==
    [][\A j \in DOMAIN within :
          LET w == within[j]
              w2 == within'[j]
          IN
          /\ (w.st = "pending" /\ w.fn = "running" /\ w2.fn = "returned")
                => (w2.st = "resolved" /\ w2.result = Val(j))
          /\ (w.st = "pending" /\ w.fn = "running" /\ w2.fn = "threw")
                => (w2.st = "rejected" /\ w2.result = Err(j))
          /\ (w.st = "pending" /\ w.timer = 0 /\ w2.timer = NoTimer /\ w2.fn = w.fn)
                => (w2.st = "rejected" /\ w2.result = WithinError
                    /\ w2.fn = "running")
          /\ Settled(w) => (w2.st = w.st /\ w2.result = w.result)]_vars

\* The timer has fired first, and fn has then run to its end and returned.
C4_Witness ==
    \E j \in DOMAIN within :
        /\ within[j].st = "rejected"
        /\ within[j].result = WithinError
        /\ within[j].fn = "returned"

\* ------------------------------------------------------------------ claims: event gate

\* The activations of gate r whose event satisfied the predicate.
Matches(r) ==
    {k \in DOMAIN r.acts : r.acts[k].st # "lost" /\ Predicate(r.acts[k].arg) = "truthy"}

\* The activations of gate r that have passed their await of the predicate
\* with a truthy answer.
Handled(r) == {k \in Matches(r) : r.acts[k].st \in {"await", "done"}}

\* The first event, in the order of emission, that satisfies the predicate.
FirstMatch(r) == CHOOSE k \in Matches(r) : \A h \in Matches(r) : k <= h

\* The outcome of call c of the plain function, as a promise would hold it.
Outcome(c) ==
    IF plain.calls[c].st = "returned" THEN <<"resolved", Val(c)>>
    ELSE <<"rejected", Err(c)>>

\* C5 as claimed: in start mode f is called neither by the call of the wrapper
\* nor on an event that fails the predicate, every call of f carries the
\* arguments of a matching event, and once the evaluation started for the
\* first matching event has been awaited, the pending result (unless the
\* timeout or a throwing predicate has rejected it) holds that evaluation's
\* outcome.
C5_StartGate ==
    \A g \in DOMAIN gate :
        (gate[g].start /\ wraps[g] = "plain") =>
            LET r == gate[g] IN
            \A c \in DOMAIN plain.calls :
                LET k == plain.calls[c].by[2] IN
                /\ k \in Matches(r)
                /\ plain.calls[c].arg = r.acts[k].arg
                /\ (k = FirstMatch(r) /\ r.acts[k].st = "done"
                      /\ r.result[1] # "TimeoutError" /\ r.result[2] # "predicate")
                   => <<r.st, r.result>> = Outcome(c)

C7_GateTimeout ==
    /\ [](\A g \in DOMAIN gate :
            (gate[g].timeoutMs > 0 /\ gate[g].listening) =>
                (gate[g].st = "pending" /\ gate[g].timer # NoTimer))
    /\ [][\A g \in DOMAIN gate :
            (gate[g].timer = 0 /\ gate'[g].timer = NoTimer
               /\ gate'[g].acts = gate[g].acts)
            => /\ gate[g].st = "pending"
               /\ Handled(gate[g]) = {}
               /\ gate'[g].st = "rejected"
               /\ gate'[g].result[1] = "TimeoutError"
               /\ (gate[g].start /\ wraps[g] = "plain") => plain'.calls = <<>>]_vars

\* A start gate has timed out after an event that failed the predicate.
C7_Witness ==
    \E g \in DOMAIN gate :
        /\ gate[g].start
        /\ gate[g].timeoutMs > 0
        /\ gate[g].st = "rejected"
        /\ gate[g].result[1] = "TimeoutError"
        /\ \E k \in DOMAIN gate[g].acts :
              gate[g].acts[k].arg[1] = "other" /\ gate[g].acts[k].st = "done"
        /\ plain.calls = <<>>

\* C8 as claimed, on the exit paths it names (an invocation that has seen one
\* event, or none before its timeout): the listener is deregistered at most
\* once, and exactly once when the invocation has settled.
C8_DeregisteredOnce ==
    \A g \in DOMAIN gate :
        Len(gate[g].acts) <= 1 =>
            /\ gate[g].off <= 1
            /\ Settled(gate[g]) => gate[g].off = 1

\* C9 as claimed: in start mode one invocation of the gated wrapper calls the
\* wrapped function at most once.
C9_HandlerRunsOnce ==
    \A g \in DOMAIN gate :
        (gate[g].start /\ wraps[g] = "plain") => Len(plain.calls) <= 1

\* C10 as claimed: once an event matching isStop has been handled, the
\* function wrapped by cyclic is not called any more.
C10_NoCallAfterStop ==
    [][Handled(gate[2]) # {} =>
          \A i \in DOMAIN retry : retry'[i].calls = retry[i].calls]_vars

\* ------------------------------------------------------------------ What.if, What.else

\* err.statusCode of an error that has no such field.
NoStatusCode == -1

\* An Error object is <<constructor name, message, statusCode>>.
ConstructorName(err) == err[1]

Message(err) == err[2]

StatusCode(err) == err[3]

\* The values the primary function throws: Error objects, and null.
Thrown ==
    { <<"Error", "negative", NoStatusCode>>,
      <<"HttpError", "not found", 404>>,
      <<"HttpError", "offline", 0>>,
      Null }

\* A matcher: its typeof, its value when a number or a string, the messages a
\* RegExp tests true on, the errors a predicate returns true for.
Matcher(type, number, string, tests, accepts) ==
    [type |-> type, number |-> number, string |-> string, tests |-> tests,
     accepts |-> accepts]

\* else(f) without a matcher.
NoMatcher == Matcher("undefined", 0, "", {}, {})

\* The matchers else() is built with: none, status codes, class names,
\* /negative/ and /other/, predicates, and an object that is no RegExp.
Matchers ==
    {NoMatcher}
      \cup {Matcher("number", n, "", {}, {}) : n \in {0, 404}}
      \cup {Matcher("string", 0, c, {}, {}) : c \in {"", "HttpError"}}
      \cup {Matcher("regexp", 0, "", t, {}) : t \in {{"negative"}, {}}}
      \cup {Matcher("function", 0, "", {}, a) : a \in {Thrown, {}}}
      \cup {Matcher("object", 0, "", {}, {})}

\* !matcher
Not(matcher) ==
    CASE matcher.type = "undefined" -> TRUE
      [] matcher.type = "number" -> matcher.number = 0
      [] matcher.type = "string" -> matcher.string = ""
      [] OTHER -> FALSE

\* Errors.matches(err, matcher)
ErrorsMatches(err, matcher) ==
    IF err \in {Null, Undefined} THEN FALSE
    ELSE CASE matcher.type = "number" -> StatusCode(err) = matcher.number
           [] matcher.type = "string" -> ConstructorName(err) = matcher.string
           [] matcher.type = "function" -> err \in matcher.accepts
           [] matcher.type = "regexp" -> Message(err) \in matcher.tests
           [] OTHER -> FALSE

\* How an evaluation ends: it returns a value or throws one (an asynchronous
\* evaluation resolves or rejects).
Return(value) == [kind |-> "return", value |-> value]

Throw(value) == [kind |-> "throw", value |-> value]

\* A call a combinator makes: of the function it wraps ("this"), of the
\* alternate ("alt") or of the predicate.
Call(f, args) == [f |-> f, args |-> args]

\* The catch block of else(): the alternate with the error appended.
CaughtWithoutError(alt, matcher, args, primary) ==
    IF Not(matcher) \/ ErrorsMatches(primary.value, matcher)
    THEN [out |-> alt, calls |-> <<Call("this", args), Call("alt", args)>>]
    ELSE [out |-> primary, calls |-> <<Call("this", args)>>]

Caught(alt, matcher, args, primary) ==
    IF Not(matcher) \/ ErrorsMatches(primary.value, matcher)
    THEN [out |-> alt,
          calls |-> <<Call("this", args),
                      Call("alt", Append(args, primary.value))>>]
    ELSE [out |-> primary, calls |-> <<Call("this", args)>>]

\* this.else(alt, matcher)(...args), for What and for AsyncWhat: primary and
\* alt are the outcomes of this(...args) and of the alternate.
Else(primary, alt, matcher, args) ==
    IF primary.kind = "throw" THEN Caught(alt, matcher, args, primary)
    ELSE IF primary.value = Undefined
    THEN [out |-> alt, calls |-> <<Call("this", args), Call("alt", args)>>]
    ELSE [out |-> primary, calls |-> <<Call("this", args)>>]

\* What.if(predicate, f, error)(...args): f when the predicate holds, else
\* the error if there is one, else undefined.
WhatIf(holds, f, error, args) ==
    IF holds
    THEN [out |-> f, calls |-> <<Call("predicate", args), Call("this", args)>>]
    ELSE [out |-> IF error # Undefined THEN Throw(error) ELSE Return(Undefined),
          calls |-> <<Call("predicate", args)>>]

\* AsyncWhat.if(predicate, f, error)(...args): f when the predicate holds,
\* else throw error, whatever error is.
AsyncWhatIf(holds, f, error, args) ==
    IF holds
    THEN [out |-> f, calls |-> <<Call("predicate", args), Call("this", args)>>]
    ELSE [out |-> Throw(error), calls |-> <<Call("predicate", args)>>]

\* The outcomes of the wrapped function and of the alternate.
Outcomes ==
    {Return(Val(1)), Return(Null), Return(Undefined)}
      \cup {Throw(err) : err \in Thrown}

AltOutcomes ==
    {Return(Val(2)), Return(Undefined), Throw(<<"Error", "alt", NoStatusCode>>)}

\* The error if() is built with: none, or new Error("if failed").
OnFail == {Undefined, <<"Error", "if failed", NoStatusCode>>}

\* A function built by else() or by if(), before it is called.
Built(op, async, x, primary, alt, matcher, holds, error) ==
    [op |-> op, async |-> async, args |-> <<Val(x)>>, primary |-> primary,
     alt |-> alt, matcher |-> matcher, holds |-> holds, error |-> error,
     st |-> "built", out |-> Return(Undefined), calls |-> <<>>]

\* The function built by else() is called with args.
ElseCall ==
    /\ what.op = "else"
    /\ what.st = "built"
    /\ LET got == Else(what.primary, what.alt, what.matcher, what.args)
       IN  what' = [what EXCEPT !.st = "done", !.out = got.out,
                                !.calls = got.calls]
    /\ UNCHANGED <<asyncVars, each, bridge, held, searchVars>>

\* The function built by if() is called with args.
IfCall ==
    /\ what.op = "if"
    /\ what.st = "built"
    /\ LET got == IF what.async
                  THEN AsyncWhatIf(what.holds, what.primary, what.error,
                                   what.args)
                  ELSE WhatIf(what.holds, what.primary, what.error, what.args)
       IN  what' = [what EXCEPT !.st = "done", !.out = got.out,
                                !.calls = got.calls]
    /\ UNCHANGED <<asyncVars, each, bridge, held, searchVars>>

\* this.else(alt, matcher) or this.if(predicate, error), on What or AsyncWhat,
\* for every outcome of this, of alt and of the predicate.
InitWhat ==
    /\ \E async \in BOOLEAN, x \in {1, 2}, primary \in Outcomes :
          \/ \E alt \in AltOutcomes, matcher \in Matchers :
                what = Built("else", async, x, primary, alt, matcher, TRUE,
                             Undefined)
          \/ \E holds \in BOOLEAN, error \in OnFail :
                what = Built("if", async, x, primary, Return(Undefined),
                             NoMatcher, holds, error)
    /\ RetryUnused
    /\ WithinUnused
    /\ GateUnused
    /\ EachUnused
    /\ BridgeUnused
    /\ PathUnused
    /\ SearchUnused

NextWhat ==
    \/ ElseCall
    \/ IfCall

SpecWhat == InitWhat /\ [][NextWhat]_vars

\* ------------------------------------------------------------------ claims: What

\* C11: a function built by else() returns the primary's value when that is
\* not undefined, without calling the alternate; it is alt(args...) when the
\* primary returns undefined, and alt(args..., error) when the primary throws
\* an error that matches the matcher, or any error when there is no matcher.
C11_Fallback ==
    (what.op = "else" /\ what.st = "done") =>
        LET this == Call("this", what.args)
            primary == what.primary
        IN  /\ (primary.kind = "return" /\ primary.value # Undefined) =>
                  (what.out = primary /\ what.calls = <<this>>)
            /\ (primary.kind = "return" /\ primary.value = Undefined) =>
                  /\ what.out = what.alt
                  /\ what.calls = <<this, Call("alt", what.args)>>
            /\ (/\ primary.kind = "throw"
                /\ \/ what.matcher = NoMatcher
                   \/ ErrorsMatches(primary.value, what.matcher)) =>
                  /\ what.out = what.alt
                  /\ what.calls =
                       <<this,
                         Call("alt", Append(what.args, primary.value))>>

\* An HttpError with status 404 was handed to the alternate of else(alt, 404).
C11_Witness ==
    /\ what.op = "else"
    /\ what.st = "done"
    /\ what.matcher.type = "number"
    /\ what.matcher.number = 404
    /\ what.primary = Throw(<<"HttpError", "not found", 404>>)
    /\ what.out = Return(Val(2))
    /\ Len(what.calls) = 2
    /\ Len(what.calls[2].args) = 2

\* C12 as claimed: with a matcher supplied, an error the primary throws that
\* Errors.matches does not match is thrown again as it is, and the alternate
\* is not called.
C12_NonMatchingRethrown ==
    (/\ what.op = "else"
     /\ what.st = "done"
     /\ what.matcher # NoMatcher
     /\ what.primary.kind = "throw"
     /\ ~ErrorsMatches(what.primary.value, what.matcher)) =>
        /\ what.out = what.primary
        /\ what.calls = <<Call("this", what.args)>>

\* C13 as claimed: a function built by if() whose predicate fails does not
\* call the wrapped function and returns undefined when no error was given,
\* or throws the error given; when the predicate holds its outcome is the
\* wrapped function's.
C13_RestrictInput ==
    (what.op = "if" /\ what.st = "done") =>
        IF what.holds
        THEN /\ what.out = what.primary
             /\ what.calls =
                  <<Call("predicate", what.args), Call("this", what.args)>>
        ELSE /\ what.calls = <<Call("predicate", what.args)>>
             /\ what.out = IF what.error = Undefined THEN Return(Undefined)
                           ELSE Throw(what.error)

\* ------------------------------------------------------------------ claims: TimeoutError

\* A number as a value of a field.
Number(n) == <<"number", n>>

\* err.millis of a TimeoutError.
Millis(err) == <<err[2], err[3]>>

\* C14 as claimed: the TimeoutError a timeout wrapper (built without an error
\* of its own) or an event gate rejects with has the configured timeoutMs as
\* its field millis.
C14_TimeoutPayload ==
    /\ \A j \in DOMAIN within :
          (within[j].st = "rejected" /\ within[j].result[1] = "TimeoutError")
              => Millis(within[j].result) = Number(timeoutMs)
    /\ \A g \in DOMAIN gate :
          (gate[g].st = "rejected" /\ gate[g].result[1] = "TimeoutError")
              => Millis(gate[g].result) = Number(gate[g].timeoutMs)

\* ------------------------------------------------------------------ Path

\* The chains a program builds and holds at a time.
MaxChains == 4

\* undefined in the place of an item: the last item of a chain that has none.
NoItem == -1

\* The items of a chain, and undefined.
Items == {0, 1, NoItem}

\* The arrays of items handed to Path.of, along and across.
ItemLists == {<<>>, <<0>>, <<0, 1>>, <<NoItem, 0>>}

\* new Path(prev, last): prev is <<>> when undefined, else <<the chain>>.
PathSameLength(prev, last) ==
    [prev |-> prev, last |-> last,
     length |-> IF prev # <<>> THEN prev[1].length
                ELSE IF last # NoItem THEN 1 ELSE 0]

Path(prev, last) ==
    [prev |-> prev, last |-> last,
     length |-> IF prev # <<>> THEN prev[1].length + 1
                ELSE IF last # NoItem THEN 1 ELSE 0]

\* this.add(item)
Add(this, item) == Path(IF 0 < this.length THEN <<this>> ELSE <<>>, item)

\* this.along(items)
RECURSIVE Along(_, _)
Along(this, items) ==
    IF items = <<>> THEN this
    ELSE Along(Add(this, Head(items)), Tail(items))

\* this.across(steps), iterated to its end: one chain per step, in order.
Across(this, steps) == [i \in 1..Len(steps) |-> Add(this, steps[i])]

\* Path.of(...steps)
Of(steps) == Along(Path(<<>>, NoItem), steps)

\* this.toArray(n)
RECURSIVE ToArray(_, _)
ToArray(this, n) ==
    IF n = 0 THEN <<>>
    ELSE Append(ToArray(IF this.prev = <<>> THEN this ELSE this.prev[1],
                        n - 1),
                this.last)

\* A chain a program holds, with the call that returned it: op on the chain
\* held[of] with the arguments items.
Held(path, op, of, items) ==
    [path |-> path, op |-> op, of |-> of, items |-> items]

\* Path.of(...steps)
PathOf(steps) ==
    /\ Len(held) < MaxChains
    /\ held' = Append(held, Held(Of(steps), "of", 0, steps))
    /\ UNCHANGED <<asyncVars, each, bridge, what, searchVars>>

\* held[i].path.add(item)
PathAdd(i, item) ==
    /\ Len(held) < MaxChains
    /\ held' = Append(held, Held(Add(held[i].path, item), "add", i, <<item>>))
    /\ UNCHANGED <<asyncVars, each, bridge, what, searchVars>>

\* held[i].path.along(items)
PathAlong(i, items) ==
    /\ Len(held) < MaxChains
    /\ held' = Append(held, Held(Along(held[i].path, items), "along", i, items))
    /\ UNCHANGED <<asyncVars, each, bridge, what, searchVars>>

\* [...held[i].path.across(steps)]
PathAcross(i, steps) ==
    /\ Len(held) + Len(steps) <= MaxChains
    /\ LET got == Across(held[i].path, steps)
       IN  held' = held \o [k \in 1..Len(steps) |->
                              Held(got[k], "across", i, <<steps[k]>>)]
    /\ UNCHANGED <<asyncVars, each, bridge, what, searchVars>>

\* A program that builds chains from new Path().
InitPath ==
    /\ held = <<Held(Path(<<>>, NoItem), "new", 0, <<>>)>>
    /\ RetryUnused
    /\ WithinUnused
    /\ GateUnused
    /\ EachUnused
    /\ BridgeUnused
    /\ WhatUnused
    /\ SearchUnused

NextPath ==
    \/ \E steps \in ItemLists : PathOf(steps)
    \/ \E i \in DOMAIN held, item \in Items : PathAdd(i, item)
    \/ \E i \in DOMAIN held, items \in ItemLists : PathAlong(i, items)
    \/ \E i \in DOMAIN held, steps \in ItemLists : PathAcross(i, steps)

SpecPath == InitPath /\ [][NextPath]_vars

\* ------------------------------------------------------------------ claims: Path

\* The length of a chain and of every chain before it is the length of its
\* previous chain plus one, or 0 or 1 when it has no previous chain.
RECURSIVE LengthsLinked(_)
LengthsLinked(path) ==
    IF path.prev = <<>> THEN path.length \in {0, 1}
    ELSE path.length = path.prev[1].length + 1 /\ LengthsLinked(path.prev[1])

MaxFns == 2

\* The functions handed to What.each: x => [x + 1, x + 2], x => [undefined, x],
\* x => x + 1 (a value that is not iterable) and x => undefined.
Fns == {"next", "gap", "one", "none"}

\* What f returns on x: undefined, an iterable of items, or one item.
Returned(kind, items) == [kind |-> kind, items |-> items]

\* What.as(f)(x); f is "undefined" where What.each has no function.
Apply(f, x) ==
    CASE f = "next" -> Returned("iterable", <<x + 1, x + 2>>)
      [] f = "gap" -> Returned("iterable", <<NoItem, x>>)
      [] f = "one" -> Returned("item", <<x + 1>>)
      [] OTHER -> Returned("undefined", <<>>)

\* Each.as(items), as the array of what it iterates.
EachAs(returned) == returned.items

\* aa.which() on items: those that are not undefined.
Defined(item) == item # NoItem

EachWhich(aa) == SelectSeq(aa, Defined)

\* ff[i] of a JavaScript array (from 0); undefined outside it.
At(ff, i) == IF i + 1 \in DOMAIN ff THEN ff[i + 1] ELSE "undefined"

\* What.each(...ff)(path): the chains it returns, in order.  The outer which()
\* keeps every chain, a chain being an object.
WhatEachNextFn(ff, path) ==
    IF path.length > Len(ff) THEN <<>>
    ELSE Across(path, EachWhich(EachAs(Apply(At(ff, path.length), path.last))))

WhatEach(ff, path) ==
    IF path.length > Len(ff) THEN <<>>
    ELSE Across(path,
                EachWhich(EachAs(Apply(At(ff, path.length - 1), path.last))))

\* The sequences of length 0..n over the set S.
SeqsUpTo(S, n) == UNION {[1..k -> S] : k \in 0..n}

\* The function What.each(...ff) returns is called with a chain.
WhatEachCall ==
    /\ expand.st = "built"
    /\ expand' = [expand EXCEPT !.st = "done",
                                !.got = WhatEach(expand.ff, expand.path)]
    /\ UNCHANGED <<asyncVars, each, bridge, what, held, space, generated, frontier>>

\* What.each(...ff), to be called with Path.of(...steps).
InitExpand ==
    /\ \E ff \in SeqsUpTo(Fns, MaxFns) \ {<<>>},
          steps \in SeqsUpTo({0, 1}, MaxFns + 1) :
          expand = [ff |-> ff, path |-> Of(steps), st |-> "built", got |-> <<>>]
    /\ space = <<>>
    /\ generated = <<>>
    /\ frontier = {}
    /\ RetryUnused
    /\ WithinUnused
    /\ GateUnused
    /\ EachUnused
    /\ BridgeUnused
    /\ WhatUnused
    /\ PathUnused

NextExpand == WhatEachCall

SpecExpand == InitExpand /\ [][NextExpand]_vars

\* ------------------------------------------------------------------ claims: What.each

\* C15: What.each(fn1..fnN) applied to a chain c of length L, 1 <= L <= N,
\* returns one chain per value fnL(c.last) produces that is not undefined, in
\* the order produced, each of length L + 1, with that value as its last item
\* and c as its previous chain; it returns nothing for L > N and for L = 0.
C15_ExpansionStep ==
    expand.st = "done" =>
        LET c == expand.path
            L == c.length
            N == Len(expand.ff)
            produced == IF L \in 1..N
                        THEN Apply(expand.ff[L], c.last).items
                        ELSE <<>>
            vs == SelectSeq(produced, Defined)
        IN  /\ Len(expand.got) = Len(vs)
            /\ \A k \in DOMAIN vs :
                  /\ expand.got[k].length = L + 1
                  /\ expand.got[k].last = vs[k]
                  /\ expand.got[k].prev = <<c>>

\* The second of two functions has extended a chain of length 2 by the one
\* value it produced that is not undefined.
C15_Witness ==
    /\ expand.st = "done"
    /\ expand.path.length = 2
    /\ Len(expand.ff) = 2
    /\ expand.ff[2] = "gap"
    /\ Len(expand.got) = 1
    /\ ToArray(expand.got[1], 3) = <<0, 1, 1>>

\* ------------------------------------------------------------------ Each.each, search

\* The most factors Each.each is called with, the space below apart.
MaxDepth == 2

\* The arrays handed to Each.each as factors.
Factors == {<<0, 1>>, <<1>>, <<>>}

\* The factors of space = Each.each([0, 1], [0, 1], [0, 1]).
ZeroOneCubed == <<<<0, 1>>, <<0, 1>>, <<0, 1>>>>

\* Each.each(...aaa)(path): the chains it returns, in order.
EachEachFromOne(aaa, path) ==
    IF path.length < Len(aaa)
    THEN Across(path, aaa[IF path.length = 0 THEN 1 ELSE path.length])
    ELSE <<>>

EachEach(aaa, path) ==
    IF path.length < Len(aaa) THEN Across(path, aaa[path.length + 1])
    ELSE <<>>

\* No value occurs twice in an array.
NoRepeat(array) ==
    \A i, j \in DOMAIN array : i # j => array[i] # array[j]

\* Array.from(value) of the Each a step function returns: its chains are
\* objects, one per position.
Objects(value) == [k \in DOMAIN value |-> <<k, value[k]>>]

\* The predicate "no repeated value", x => NoRepeat(x.toArray()), as
\* What.which calls it: p(value, ...args), value being what the step function
\* has returned for the chain args.
NoRepeatedValue(value, path) == NoRepeat(Objects(value))

\* What.which(f, p, error)(path) with error undefined (What.WHICH_ERROR is not
\* defined): the value f returns if p holds of it, else undefined (no chain).
WhatWhich(value, path) == IF NoRepeatedValue(value, path) THEN value ELSE <<>>

\* The step function of the search: space, or space.which(predicate).
Step(path) ==
    IF space.restricted THEN WhatWhich(EachEach(space.aaa, path), path)
    ELSE EachEach(space.aaa, path)

\* The chains of an array, as a bag.
SeqToBag(seq) ==
    [c \in {seq[k] : k \in DOMAIN seq} |->
        Cardinality({k \in DOMAIN seq : seq[k] = c})]

\* The search takes a chain that is not expanded yet, in any order, and
\* applies the step function to it.
Search(path) ==
    /\ path \in frontier
    /\ LET got == Step(path)
       IN  /\ generated' = generated (+) SeqToBag(got)
           /\ frontier' = (frontier \ {path}) \cup {got[k] : k \in DOMAIN got}
    /\ UNCHANGED <<asyncVars, each, bridge, what, held, expand, space>>

\* space = Each.each(...aaa); the search starts from new Path() with space,
\* or with space.which(predicate) for the space of [0, 1] three times.
InitSearch ==
    /\ \/ \E aaa \in SeqsUpTo(Factors, MaxDepth) \cup {ZeroOneCubed} :
             space = [aaa |-> aaa, restricted |-> FALSE]
       \/ space = [aaa |-> ZeroOneCubed, restricted |-> TRUE]
    /\ generated = SetToBag({Path(<<>>, NoItem)})
    /\ frontier = {Path(<<>>, NoItem)}
    /\ expand = <<>>
    /\ RetryUnused
    /\ WithinUnused
    /\ GateUnused
    /\ EachUnused
    /\ BridgeUnused
    /\ WhatUnused
    /\ PathUnused

NextSearch == \E path \in frontier : Search(path)

SpecSearch == InitSearch /\ [][NextSearch]_vars

\* ------------------------------------------------------------------ claims: search

\* A1 x ... x Ak
Product(aaa) ==
    {t \in [1..Len(aaa) -> {0, 1}] :
        \A i \in 1..Len(aaa) : \E j \in DOMAIN aaa[i] : aaa[i][j] = t[i]}

\* The chains of full length generated so far.
Full == {c \in BagToSet(generated) : c.length = Len(space.aaa)}

\* The chains of full length whose toArray() is t.
Reached(t) == {c \in Full : ToArray(c, c.length) = t}

\* C16: driven from the empty chain in any order, the step function of
\* Each.each(A1..Ak) generates no chain longer than k, every chain of length k
\* is a tuple of A1 x ... x Ak, no tuple is generated twice, and when no chain
\* is left to expand every tuple has been generated.
C16_Cartesian ==
    ~space.restricted =>
        /\ \A c \in BagToSet(generated) : c.length <= Len(space.aaa)
        /\ \A c \in Full : ToArray(c, c.length) \in Product(space.aaa)
        /\ \A t \in Product(space.aaa) :
              /\ Cardinality(Reached(t)) <= 1
              /\ \A c \in Reached(t) : CopiesIn(c, generated) = 1
              /\ frontier = {} => Reached(t) # {}

\* The search of [0,1] x [0,1] x [0,1] is over and has generated <<1, 1, 0>>.
C16_Witness ==
    /\ ~space.restricted
    /\ space.aaa = ZeroOneCubed
    /\ frontier = {}
    /\ Reached(<<1, 1, 0>>) # {}
    /\ Cardinality(Full) = 8

\* C17 as claimed: the search of Each.each([0,1],[0,1],[0,1]) with
\* space.which(predicate) generates no child of a chain that fails the
\* predicate, generates fewer than 8 chains of length 3, and ends with the
\* chains of length 3 that the search of space, filtered by the predicate,
\* ends with.
C17_EarlyRestriction ==
    (space.restricted /\ space.aaa = ZeroOneCubed) =>
        /\ \A c \in BagToSet(generated) :
              c.prev # <<>> =>
                  NoRepeat(ToArray(c.prev[1], c.prev[1].length))
        /\ Cardinality(Full) < 8
        /\ frontier = {} =>
              {ToArray(c, c.length) : c \in Full}
                  = {t \in Product(space.aaa) : NoRepeat(t)}

\* ------------------------------------------------------------------ Each.when()

\* The most elements of a bridged sequence.
MaxElements == 3

\* The element at position k of the source: a promise of the value k, or the
\* plain value k.
Element(kind, k) == [kind |-> kind, value |-> k]

\* The sources of length n: every element a promise or a plain value.
Sources(n) ==
    {[k \in 1..n |-> Element(kinds[k], k)] : kinds \in [1..n -> {"promise", "plain"}]}

\* The promises of a source before the traversal.  Each.of(p1, .., pn) holds
\* promises that exist already (eager); Each.of(..).sthen(async f) makes the
\* promise of an element when the element is asked for (lazy).
Promises(source, lazy) ==
    [k \in DOMAIN source |->
        IF source[k].kind = "plain" THEN "plain"
        ELSE IF lazy THEN "none" ELSE "pending"]

\* AsyncEach.as(got): an AsyncEach that iterates got.
AsyncEachAs(got) == got

\* aa.when(): the bridge before its traversal starts.  pos is the position of
\* the for..of loop in the source, gen the state of the asynchronous
\* generator, requests the calls of next() not answered yet, delivered the
\* values the consumer has got, order the promises in the order they resolved.
Bridged(source, lazy) ==
    AsyncEachAs([source |-> source, lazy |-> lazy,
                 promise |-> Promises(source, lazy), pos |-> 0, gen |-> "start",
                 requests |-> 0, calls |-> 0, delivered |-> <<>>,
                 order |-> <<>>])

\* The generator runs its loop on when it is suspended and a call of next()
\* waits for an answer.
MayPullAhead(b) == b.gen \in {"start", "yielded", "awaiting"} /\ b.requests > 0

MayPull(b) == b.gen \in {"start", "yielded"} /\ b.requests > 0

\* The value of "yield await a": that of the element the loop is at.
YieldedLatest(b) ==
    IF b.order # <<>> THEN b.source[b.order[Len(b.order)]].value
    ELSE b.source[b.pos].value

Yielded(b) == b.source[b.pos].value

\* The consumer calls next() (for await calls it once per turn; a consumer may
\* also call ahead).
ConsumerNext ==
    /\ bridge.calls <= Len(bridge.source)
    /\ bridge' = [bridge EXCEPT !.calls = @ + 1, !.requests = @ + 1]
    /\ UNCHANGED <<asyncVars, each, what, held, searchVars>>

\* for (const a of aa): the loop takes the next element from the source (a
\* lazy source makes its promise now) and awaits it.
Pull ==
    /\ MayPull(bridge)
    /\ bridge.pos < Len(bridge.source)
    /\ bridge' = [bridge EXCEPT
          !.pos = @ + 1,
          !.gen = "awaiting",
          !.promise[bridge.pos + 1] = IF @ = "none" THEN "pending" ELSE @]
    /\ UNCHANGED <<asyncVars, each, what, held, searchVars>>

\* A pending promise resolves.
Resolve(k) ==
    /\ bridge.promise[k] = "pending"
    /\ bridge' = [bridge EXCEPT !.promise[k] = "resolved",
                                !.order = Append(@, k)]
    /\ UNCHANGED <<asyncVars, each, what, held, searchVars>>

\* yield await a: the awaited element is there and answers the oldest call of
\* next().
Yield ==
    /\ bridge.gen = "awaiting"
    /\ bridge.promise[bridge.pos] \in {"resolved", "plain"}
    /\ bridge' = [bridge EXCEPT !.gen = "yielded",
                                !.requests = @ - 1,
                                !.delivered = Append(@, Yielded(bridge))]
    /\ UNCHANGED <<asyncVars, each, what, held, searchVars>>

\* The source has no more elements: the generator returns, and answers this
\* and every later call of next() with done.
GeneratorReturn ==
    /\ \/ MayPull(bridge) /\ bridge.pos = Len(bridge.source)
       \/ bridge.gen = "done" /\ bridge.requests > 0
    /\ bridge' = [bridge EXCEPT !.gen = "done", !.requests = @ - 1]
    /\ UNCHANGED <<asyncVars, each, what, held, searchVars>>

\* Each.of(...).when(), or Each.of(...).sthen(async f).when(), traversed once.
InitBridge ==
    /\ \E n \in 0..MaxElements, lazy \in BOOLEAN :
          \E source \in Sources(n) : bridge = Bridged(source, lazy)
    /\ RetryUnused
    /\ WithinUnused
    /\ GateUnused
    /\ EachUnused
    /\ WhatUnused
    /\ PathUnused
    /\ SearchUnused

NextBridge ==
    \/ ConsumerNext
    \/ Pull
    \/ \E k \in DOMAIN bridge.source : Resolve(k)
    \/ Yield
    \/ GeneratorReturn

SpecBridge == InitBridge /\ [][NextBridge]_vars

\* ------------------------------------------------------------------ claims: Each.when()

\* C19: the values the consumer gets are the values of the source's elements
\* in the order of their positions, each once, in whatever order the promises
\* resolve, a plain element being delivered as it is; when the traversal is
\* over, every element has been delivered.
C19_BridgeOrder ==
    /\ Len(bridge.delivered) <= Len(bridge.source)
    /\ \A k \in DOMAIN bridge.delivered :
          bridge.delivered[k] = bridge.source[k].value
    /\ bridge.gen = "done" => Len(bridge.delivered) = Len(bridge.source)

\* Three promises that resolved in the order 3, 2, 1 were delivered as 1, 2, 3,
\* with a plain element among the sources of the other behaviours.
C19_Witness ==
    /\ ~bridge.lazy
    /\ \A k \in DOMAIN bridge.source : bridge.source[k].kind = "promise"
    /\ bridge.order = <<3, 2, 1>>
    /\ bridge.delivered = <<1, 2, 3>>
    /\ bridge.gen = "done"

\* C20: the loop takes element i + 1 from the source (and a lazy source starts
\* the mapping step that makes its promise) only when element i has been
\* delivered to the consumer; at most one element is taken and not delivered.
C20_Sequential ==
    /\ [](/\ bridge.pos <= Len(bridge.delivered) + 1
          /\ bridge.lazy =>
                Cardinality({k \in DOMAIN bridge.promise :
                                bridge.promise[k] = "pending"}) <= 1)
    /\ [][\A k \in DOMAIN bridge.source :
            (bridge'.pos = k + 1 /\ bridge.pos = k) =>
                Len(bridge.delivered) >= k]_vars

\* A consumer that has called next() three times has got the first element of
\* a lazy source, while the second is pending and the third is not made.
C20_Witness ==
    /\ bridge.lazy
    /\ Len(bridge.source) = 3
    /\ bridge.calls = 3
    /\ Len(bridge.delivered) = 1
    /\ bridge.promise = <<"resolved", "pending", "none">>

\* ------------------------------------------------------------------ claims: retry scheduling

\* The attempts of invocation r that are in flight: the calls of f that have
\* been made and have not settled.
InFlight(r) == r.calls - Len(r.log)

\* C27: within one invocation of a retry wrapper the attempts are strictly
\* sequential.  At most one attempt is in flight, and none while a backoff
\* timer is pending; attempt n+1 starts only from the first call or when the
\* timer set at the failure of attempt n fires; that timer is set, at the
\* failure, to min(baseDelay * factor^(n-1), maxDelay), and until it fires it is
\* only run down by the time that passes.
C27_Sequential ==
    /\ [](\A i \in DOMAIN retry :
            LET r == retry[i] IN
            /\ InFlight(r) \in {0, 1}
            /\ InFlight(r) = 1 <=> r.st = "attempt"
            /\ r.timer # NoTimer => (r.st = "backoff" /\ InFlight(r) = 0))
    /\ [][\A i \in DOMAIN retry :
            LET r == retry[i]
                r2 == retry'[i]
                n == Len(r2.log)
            IN
            /\ r2.calls # r.calls =>
                  /\ r2.calls = r.calls + 1
                  /\ r2.timer = NoTimer
                  /\ \/ r.st = "idle" /\ r.calls = 0
                     \/ /\ r.st = "backoff"
                        /\ r.timer = 0
                        /\ r.log[r.calls] = "fail"
            /\ (r.st = "attempt" /\ r2.st = "backoff") =>
                  /\ r2.log = Append(r.log, "fail")
                  /\ r2.timer = Min(baseDelay * Pow(factor, n - 1), maxDelay)
            /\ (r.st = "backoff" /\ r2.st = "backoff") =>
                  r2.timer \in {r.timer, r.timer - 1}]_vars

\* The third attempt is in flight after two backoffs of 1 and of 2 time units.
C27_Witness ==
    \E i \in DOMAIN retry :
        /\ baseDelay = 1
        /\ factor = 2
        /\ maxDelay = Infinity
        /\ retry[i].log = <<"fail", "fail">>
        /\ retry[i].st = "attempt"
        /\ retry[i].calls = 3

C29_NoActionAfterTimeout ==
    [][\A g \in DOMAIN gate :
          (gate[g].st = "rejected" /\ gate[g].result[1] = "TimeoutError") =>
              /\ Len(plain'.calls) = Len(plain.calls)
              /\ plain'.stopped = plain.stopped]_vars

\* ------------------------------------------------------------------ What.sthen

\* The most functions sthen() is called with.
MaxMapped == 3

\* The functions handed to sthen(): x => x + 1, x => x * 2, and one that
\* returns undefined.
Mapped == {"inc", "double", "absent"}

\* f(got): the value is the term that names the computation, and undefined
\* for the function that returns nothing.
Term(f, got) == IF f = "absent" THEN <<"undefined">> ELSE Append(got, f)

\* let got = arg; for (let f of ff) got = f(got); return got;
RECURSIVE Piped(_, _, _)
Piped(ff, got, calls) ==
    IF ff = <<>> THEN [out |-> Return(got), calls |-> calls]
    ELSE Piped(Tail(ff), Term(Head(ff), got),
               Append(calls, Call(Head(ff), <<got>>)))

\* What.sthen(...ff)(arg)
WhatSthen(ff, arg) == Piped(ff, arg, <<>>)

\* AsyncWhat.sthen(...ff)(arg), every f awaited in turn.
AsyncWhatSthen(ff, arg) == Piped(ff, arg, <<>>)

\* this.sthen(...ff)(arg) on a What: sthen(f) has one parameter.
WhatSthenOf(ff, arg) == WhatSthen(<<"this", ff[1]>>, arg)

\* this.sthen(...ff)(arg) on an AsyncWhat.
AsyncWhatSthenOf(ff, arg) == AsyncWhatSthen(<<"this">> \o ff, arg)

\* The sequences over S of the lengths from..to.
SeqsBetween(S, from, to) == UNION {[1..n -> S] : n \in from..to}

\* The function built by sthen() is called with x.
SthenCall ==
    /\ what.op = "sthen"
    /\ what.st = "built"
    /\ LET got ==
            CASE what.async /\ what.instance -> AsyncWhatSthenOf(what.ff, what.args)
              [] what.async /\ ~what.instance -> AsyncWhatSthen(what.ff, what.args)
              [] ~what.async /\ what.instance -> WhatSthenOf(what.ff, what.args)
              [] OTHER -> WhatSthen(what.ff, what.args)
       IN  what' = [what EXCEPT !.st = "done", !.out = got.out,
                                !.calls = got.calls]
    /\ UNCHANGED <<asyncVars, each, bridge, held, searchVars>>

\* What.sthen(...ff), AsyncWhat.sthen(...ff) or f.sthen(...ff) with at least
\* one function, before the call with x.
InitSthen ==
    /\ \E async \in BOOLEAN, instance \in BOOLEAN,
          ff \in SeqsBetween(Mapped, 1, MaxMapped) :
          what = [op |-> "sthen", async |-> async, instance |-> instance,
                  ff |-> ff, args |-> <<"x">>, st |-> "built",
                  out |-> Return(<<"undefined">>), calls |-> <<>>]
    /\ RetryUnused
    /\ WithinUnused
    /\ GateUnused
    /\ EachUnused
    /\ BridgeUnused
    /\ PathUnused
    /\ SearchUnused

NextSthen == SthenCall

SpecSthen == InitSthen /\ [][NextSthen]_vars

\* ------------------------------------------------------------------ claims: sthen

\* fnN(...fn1(x)...)
RECURSIVE Nested(_, _)
Nested(fns, x) ==
    IF fns = <<>> THEN x
    ELSE Term(fns[Len(fns)], Nested(SubSeq(fns, 1, Len(fns) - 1), x))

\* C24 as claimed: the function built by sthen(fn1..fnN), in the static and in
\* the instance form, on What and on AsyncWhat, returns fnN(...fn1(x)...), x
\* being the input or the result of this; every fn is called once, in the
\* order of the arguments, also after one of them has returned undefined.
C24_MapOrder ==
    (what.op = "sthen" /\ what.st = "done") =>
        LET fns == IF what.instance THEN <<"this">> \o what.ff ELSE what.ff
        IN  /\ what.out = Return(Nested(fns, what.args))
            /\ Len(what.calls) = Len(fns)
            /\ \A k \in 1..Len(fns) : what.calls[k].f = fns[k]

\* ------------------------------------------------------------------ Each.equal

\* The longest array that is compared.
MaxWidth == 2

\* A JavaScript value: a number (NaN among them), a string, or an array.
NumberValue(n) == [type |-> "number", v |-> n, items |-> <<>>]

NaN == NumberValue("NaN")

StringValue(text) == [type |-> "string", v |-> text, items |-> <<>>]

ArrayValue(items) == [type |-> "array", v |-> "", items |-> items]

\* The values that are not arrays.
Atoms == {NumberValue("1"), NumberValue("2"), NaN, StringValue("ab")}

\* The arrays of atoms, as wide as MaxWidth.
Flat == {ArrayValue(items) : items \in SeqsBetween(Atoms, 0, MaxWidth)}

\* The arrays that are items of other arrays.
Inner ==
    {ArrayValue(items) :
        items \in {<<>>, <<NumberValue("1")>>,
                   <<NumberValue("1"), NumberValue("2")>>,
                   <<StringValue("ab")>>, <<NaN>>}}

\* The arrays of arrays.
Nesting == {ArrayValue(items) : items \in SeqsBetween(Inner, 1, MaxWidth)}

\* The values handed to Each.equal.
Values == Atoms \cup Flat \cup Nesting

\* aa === bb, for values that are not both traversed: NaN equals nothing.
StrictEquals(aa, bb) == aa = bb /\ aa # NaN

\* obj != null && typeof obj[Symbol.iterator] === 'function'
IsIterable(obj) == obj.type \in {"array", "string"}

\* Each.equal(aa, bb), and its loop over the two iterators.
RECURSIVE Equal(_, _), EqualFrom(_, _)
EqualFrom(ait, bit) ==
    IF ait = <<>> \/ bit = <<>> THEN (ait = <<>>) = (bit = <<>>)
    ELSE IF ~Equal(Head(ait), Head(bit)) THEN FALSE
    ELSE EqualFrom(Tail(ait), Tail(bit))

Equal(aa, bb) ==
    IF /\ aa.type # "string" /\ IsIterable(aa)
       /\ bb.type # "string" /\ IsIterable(bb)
    THEN EqualFrom(aa.items, bb.items)
    ELSE StrictEquals(aa, bb)

\* Each.equal(aa, bb) and Each.equal(bb, aa) are called.
EqualCall ==
    /\ each.op = "equal"
    /\ each.st = "built"
    /\ each' = [each EXCEPT !.st = "done", !.out = Equal(each.aa, each.bb),
                            !.back = Equal(each.bb, each.aa)]
    /\ UNCHANGED <<asyncVars, what, held, searchVars, bridge>>

\* Two values, before they are compared.
InitEqual ==
    /\ \E aa \in Values, bb \in Values :
          each = [op |-> "equal", aa |-> aa, bb |-> bb, st |-> "built",
                  out |-> FALSE, back |-> FALSE]
    /\ RetryUnused
    /\ WithinUnused
    /\ GateUnused
    /\ WhatUnused
    /\ PathUnused
    /\ SearchUnused
    /\ BridgeUnused

NextEqual == EqualCall

SpecEqual == InitEqual /\ [][NextEqual]_vars

\* ------------------------------------------------------------------ claims: Each.equal

\* Two values are the same: both the same atom, or arrays of the same length
\* whose corresponding items are the same.
RECURSIVE Same(_, _)
Same(a, b) ==
    IF a.type = "array" /\ b.type = "array"
    THEN /\ Len(a.items) = Len(b.items)
         /\ \A k \in 1..Len(a.items) : Same(a.items[k], b.items[k])
    ELSE a = b

\* C25 as claimed: over arrays, nested or not, Each.equal is reflexive and
\* symmetric, and it holds exactly when both sides have the same length and
\* their corresponding items are equal recursively, a string being one item.
C25_Equality ==
    (/\ each.op = "equal" /\ each.st = "done"
     /\ each.aa.type = "array" /\ each.bb.type = "array") =>
        /\ each.aa = each.bb => each.out
        /\ each.out = each.back
        /\ each.out = Same(each.aa, each.bb)

\* What holds of C25: the same, over values in which NaN does not occur.
RECURSIVE HasNaN(_)
HasNaN(a) == a = NaN \/ \E k \in 1..Len(a.items) : HasNaN(a.items[k])

EqualWithoutNaN ==
    (~HasNaN(each.aa) /\ ~HasNaN(each.bb)) => C25_Equality

\* ------------------------------------------------------------------ Each

\* The most items of an array or of Each.of(...items).
MaxItems == 3

\* The most calls of next() the consumer makes on one iterator.
MaxRequests == 4

\* The elements one call of next() draws from its source before it counts as
\* a call that never returns (a loop over an infinite source that yields no
\* more).
Patience == MaxItems + 2

\* The traversals of one Each that the model follows.
Traversals == {1, 2}

\* A source: Each.of(...items), Each.as(array), Each.as(iterator) over a
\* generator object, Each.along(start, next), or Each.NATURAL.
Source(kind, items, start, next) ==
    [kind |-> kind, items |-> items, start |-> start, next |-> next]

EachSources ==
    {Source(kind, items, 0, "") :
        kind \in {"of", "array", "iterator"},
        items \in SeqsBetween({1, 2}, 0, MaxItems)}
      \cup {Source("along", <<>>, start, next) :
              start \in {0, 1, 2}, next \in {"inc", "dec", "none"}}
      \cup {Source("NATURAL", <<>>, 0, "")}

\* while (current): 0 and undefined are falsy.
Falsy(value) == value = 0 \/ value = NoItem

\* next(current): n => n + 1, n => n - 1, or a function that returns nothing.
NextOf(next, current) ==
    CASE next = "inc" -> current + 1
      [] next = "dec" -> current - 1
      [] OTHER -> NoItem

\* What next() of an iterator returns.
Done == [done |-> TRUE, value |-> NoItem]

Value(value) == [done |-> FALSE, value |-> value]

\* let current = start; while (current) { yield current; current = next(current); }
RECURSIVE AlongAt(_, _, _)
AlongAt(current, next, k) ==
    IF Falsy(current) THEN Done
    ELSE IF k = 1 THEN Value(current)
    ELSE AlongAt(NextOf(next, current), next, k - 1)

\* The k-th call of next() on an iterator of the source.
SourceAt(src, k) ==
    CASE src.kind = "NATURAL" -> Value(k - 1)
      [] src.kind = "along" -> AlongAt(src.start, src.next, k)
      [] OTHER -> IF k <= Len(src.items) THEN Value(src.items[k]) ELSE Done

\* A generator object is its own iterator: every traversal of Each.as(it)
\* draws from the one cursor.
Shared(src) == src.kind = "iterator"

\* A predicate handed to which() or to when(): a function of (item, index),
\* or a number.
Function(name, n) == [type |-> "function", name |-> name, n |-> n]

Index(n) == [type |-> "number", name |-> "", n |-> n]

NoArgument == [type |-> "undefined", name |-> "", n |-> 0]

\* if (typeof p === 'number') p = (_, i) => i === index
AsPredicate(p) == IF p.type = "number" THEN Function("index", p.n) ELSE p

\* p(a, i)
Holds(p, a, i) ==
    CASE p.name = "index" -> i = p.n
      [] p.name = "over" -> a > p.n
      [] OTHER -> FALSE

\* f(a, i)
Map(f, a, i) == IF f = "inc" THEN a + 1 ELSE 2 * a

\* A combinator over the source, with the arguments it was given.
Combinator(name, p, given, start, inclusive, f) ==
    [name |-> name, p |-> p, given |-> given, start |-> start,
     inclusive |-> inclusive, f |-> f]

\* when(p, start = true, inclusive = start)
StartOf(by) == IF by.given >= 2 THEN by.start ELSE TRUE

InclusiveAlways(by) == IF by.given >= 3 THEN by.inclusive ELSE TRUE

InclusiveOf(by) == IF by.given >= 3 THEN by.inclusive ELSE StartOf(by)

Functions == {Function("index", 0), Function("index", 1), Function("over", 1),
              Function("never", 0)}

\* The combinators whose iteration is followed: the source as it is, if(),
\* which(), sthen() and when() with one, two or three arguments.
Traversed ==
    {Combinator("none", NoArgument, 0, TRUE, TRUE, "")}
      \cup {Combinator(name, p, 1, TRUE, TRUE, "") :
              name \in {"if", "which"}, p \in Functions}
      \cup {Combinator("sthen", NoArgument, 1, TRUE, TRUE, f) :
              f \in {"inc", "double"}}
      \cup {Combinator("when", p, 1, TRUE, TRUE, "") :
              p \in Functions \cup {Index(0), Index(1)}}
      \cup {Combinator("when", p, 2, start, TRUE, "") :
              p \in Functions \cup {Index(0), Index(1)}, start \in BOOLEAN}
      \cup {Combinator("when", p, 3, start, inclusive, "") :
              p \in Functions \cup {Index(0), Index(1)},
              start \in BOOLEAN, inclusive \in BOOLEAN}

\* The combinators that are only built: else(), else(that), match(),
\* match(that), each(that), self().
Composed ==
    {Combinator(name, NoArgument, given, TRUE, TRUE, "") :
        name \in {"else", "match"}, given \in {0, 1}}
      \cup {Combinator("each", NoArgument, 1, TRUE, TRUE, ""),
            Combinator("self", NoArgument, 0, TRUE, TRUE, "")}

\* An iterator of the sequence before its first next(): its position in the
\* source, the calls of next() it has made on the source and of the function
\* it was given, the locals i and started / ended, and what it has yielded.
Ready ==
    [st |-> "ready", pos |-> 0, pulls |-> 0, calls |-> 0, i |-> 0,
     flag |-> FALSE, out |-> <<>>, requests |-> 0]

\* [...this]: the calls of next() that the spread of the source makes from
\* position pos, the last one returning done.
RECURSIVE Spread(_, _, _)
Spread(src, pos, fuel) ==
    IF fuel = 0 THEN [pulls |-> 0, hung |-> TRUE]
    ELSE IF SourceAt(src, pos + 1).done THEN [pulls |-> 1, hung |-> FALSE]
    ELSE LET rest == Spread(src, pos + 1, fuel - 1)
         IN  [pulls |-> rest.pulls + 1, hung |-> rest.hung]

\* The combinator is called on the source: a new Each is made, and only
\* match() without an argument spreads the source, Each.match(...this).
EachBuild ==
    /\ each.op = "build"
    /\ each.built = "no"
    /\ IF each.by.name = "match" /\ each.by.given = 0
       THEN LET all == Spread(each.src, 0, Patience)
            IN  each' = [each EXCEPT
                           !.built = IF all.hung THEN "hung" ELSE "yes",
                           !.evals = all.pulls,
                           !.cursor = IF Shared(each.src)
                                      THEN [pos |-> all.pulls - 1, closed |-> FALSE]
                                      ELSE @]
       ELSE each' = [each EXCEPT !.built = "yes"]
    /\ UNCHANGED <<asyncVars, what, held, searchVars, bridge>>

\* The body of the generator of the combinator by, run from where it was
\* suspended until it yields, returns, or never comes back: tr is the
\* iterator, pos and closed the position of the source's iterator.
RECURSIVE Advance(_, _, _, _, _, _)
Advance(src, by, tr, pos, closed, fuel) ==
    LET e == IF closed THEN Done ELSE SourceAt(src, pos + 1)
        a == e.value
        p == AsPredicate(by.p)
        pulled == [tr EXCEPT !.pulls = @ + 1]
        counted == [pulled EXCEPT !.i = @ + 1]
        tested == [counted EXCEPT !.calls = @ + 1]
        yield(r, value) == [tr |-> [r EXCEPT !.out = Append(@, value)],
                            pos |-> pos + 1, closed |-> closed]
        return(r, close) == [tr |-> [r EXCEPT !.st = "done"], pos |-> pos,
                             closed |-> close]
        loop(r) == Advance(src, by, r, pos + 1, closed, fuel - 1)
    IN
    IF fuel = 0
    THEN [tr |-> [tr EXCEPT !.st = "hung"], pos |-> pos, closed |-> closed]
    ELSE IF e.done THEN return(pulled, closed)
    ELSE CASE by.name = "none" -> yield(pulled, a)
           [] by.name \in {"if", "which"} ->
                \* if (p(a, i++)) yield a
                IF Holds(p, a, tr.i) THEN yield(tested, a) ELSE loop(tested)
           [] by.name = "sthen" ->
                \* yield f(a, i++)
                yield(tested, Map(by.f, a, tr.i))
           [] by.name = "when" /\ StartOf(by) ->
                \* toStart
                IF tr.flag THEN yield(counted, a)
                ELSE IF Holds(p, a, tr.i)
                THEN IF InclusiveOf(by)
                     THEN yield([tested EXCEPT !.flag = TRUE], a)
                     ELSE loop([tested EXCEPT !.flag = TRUE])
                ELSE loop(tested)
           [] OTHER ->
                \* toEnd: break leaves the loop and closes the source's iterator
                IF tr.flag THEN [tr |-> [pulled EXCEPT !.st = "done"],
                                 pos |-> pos + 1, closed |-> TRUE]
                ELSE IF Holds(p, a, tr.i)
                THEN IF InclusiveOf(by)
                     THEN yield([tested EXCEPT !.flag = TRUE], a)
                     ELSE loop([tested EXCEPT !.flag = TRUE])
                ELSE yield(tested, a)

\* The consumer calls next() on iterator t of the sequence.
EachNext(t) ==
    /\ each.op = "build"
    /\ each.built = "yes"
    /\ each.by \in Traversed
    /\ each.runs[t].st = "ready"
    /\ each.runs[t].requests < MaxRequests
    /\ LET tr == [each.runs[t] EXCEPT !.requests = @ + 1]
           shared == Shared(each.src)
           got == Advance(each.src, each.by, tr,
                          IF shared THEN each.cursor.pos ELSE tr.pos,
                          IF shared THEN each.cursor.closed ELSE FALSE,
                          Patience)
       IN  each' = [each EXCEPT
                      !.runs[t] = [got.tr EXCEPT !.pos = got.pos],
                      !.cursor = IF shared
                                 THEN [pos |-> got.pos, closed |-> got.closed]
                                 ELSE @]
    /\ UNCHANGED <<asyncVars, what, held, searchVars, bridge>>

\* A source and the combinator that is about to be called on it.
InitEach ==
    /\ \E src \in EachSources, by \in Traversed \cup Composed :
          each = [op |-> "build", src |-> src, by |-> by, built |-> "no",
                  evals |-> 0, cursor |-> [pos |-> 0, closed |-> FALSE],
                  runs |-> [t \in Traversals |-> Ready]]
    /\ RetryUnused
    /\ WithinUnused
    /\ GateUnused
    /\ WhatUnused
    /\ PathUnused
    /\ SearchUnused
    /\ BridgeUnused

NextEach ==
    \/ EachBuild
    \/ \E t \in Traversals : EachNext(t)

SpecEach == InitEach /\ [][NextEach]_vars

\* ------------------------------------------------------------------ claims: Each.when

\* The index of the first item of s that p matches, a number n matching the
\* item at index n; -1 when there is none.
FirstIndex(s, p) ==
    LET matching == IF p.type = "number"
                    THEN {k \in 0..(Len(s) - 1) : k = p.n}
                    ELSE {k \in 0..(Len(s) - 1) : Holds(p, s[k + 1], k)}
    IN  IF matching = {} THEN -1
        ELSE CHOOSE k \in matching : \A h \in matching : k <= h

\* s[from..to], the indices counted from 0.
Slice(s, from, to) == SubSeq(s, from + 1, to + 1)

\* C23: over a finite sequence s whose first match is at index m,
\* when(p, start, inclusive) yields s[m..] in start mode inclusive, s[m+1..]
\* in start mode exclusive, s[0..m-1] in end mode exclusive and s[0..m] in end
\* mode inclusive; without a match it yields nothing in start mode and all of
\* s in end mode; start defaults to true and inclusive to start; a number n
\* is the predicate (_, index) => index === n.
C23_Slice ==
    \A t \in Traversals :
        (/\ each.by.name = "when"
         /\ each.src.kind \in {"of", "array"}
         /\ each.runs[t].st = "done") =>
            LET s == each.src.items
                last == Len(s) - 1
                m == FirstIndex(s, each.by.p)
                start == each.by.given < 2 \/ each.by.start
                inclusive == IF each.by.given = 3 THEN each.by.inclusive
                             ELSE start
            IN  each.runs[t].out =
                  CASE m = -1 /\ start -> <<>>
                    [] m = -1 /\ ~start -> s
                    [] m # -1 /\ start /\ inclusive -> Slice(s, m, last)
                    [] m # -1 /\ start /\ ~inclusive -> Slice(s, m + 1, last)
                    [] m # -1 /\ ~start /\ inclusive -> Slice(s, 0, m)
                    [] OTHER -> Slice(s, 0, m - 1)

\* Each.of(1, 2, 1).when(x => x > 1, false) has yielded 1 and is done.
C23_Witness ==
    /\ each.src = Source("of", <<1, 2, 1>>, 0, "")
    /\ each.by = Combinator("when", Function("over", 1), 2, FALSE, TRUE, "")
    /\ each.runs[1].st = "done"
    /\ each.runs[1].out = <<1>>

\* ------------------------------------------------------------------ claims: Each

\* C21 as claimed: building a combinator over a source makes no call of
\* next() on the source and no call of the function it is given; as long as
\* no iterator of the result has been asked for an item, nothing has been
\* evaluated, and an iterator never yields more than it was asked for.
C21_Lazy ==
    /\ each.evals = 0
    /\ each.built # "hung"
    /\ \A t \in Traversals :
          LET tr == each.runs[t] IN
          /\ tr.requests = 0 => (tr.pulls = 0 /\ tr.calls = 0)
          /\ Len(tr.out) <= tr.requests
    /\ (\A t \in Traversals : each.runs[t].requests = 0) => each.cursor.pos = 0

\* What holds of C21: the same for every combinator but match() without an
\* argument.
LazyButMatch ==
    ~(each.by.name = "match" /\ each.by.given = 0) => C21_Lazy

\* An iterator of its own over a source that is traversed afresh, after n
\* calls of next().
RECURSIVE Alone(_, _, _)
Alone(src, by, n) ==
    IF n = 0 THEN Ready
    ELSE LET before == Alone(src, by, n - 1)
             got == Advance(src, by, [before EXCEPT !.requests = @ + 1],
                            before.pos, FALSE, Patience)
         IN  IF before.st # "ready" THEN before
             ELSE [got.tr EXCEPT !.pos = got.pos]

\* C22 as claimed: every iterator of an Each traverses the sequence from its
\* first element, whatever the other iterators of the same Each have done: it
\* has yielded what an iterator of its own yields after as many requests.
C22_Reentrant ==
    \A t \in Traversals :
        LET tr == each.runs[t]
            alone == Alone(each.src, each.by, tr.requests)
        IN  tr.out = alone.out /\ tr.st = alone.st

\* What holds of C22: the same over every source but Each.as(iterator).
ReentrantOverArrays == ~Shared(each.src) => C22_Reentrant

\* next applied k - 1 times to start.
RECURSIVE Iterated(_, _, _)
Iterated(start, next, k) ==
    IF k = 1 THEN start ELSE NextOf(next, Iterated(start, next, k - 1))

\* C26 as claimed: Each.along(start, next) yields start, next(start),
\* next(next(start)), ... in this order, one item for each request, and ends
\* only when next has returned a falsy value; Each.along(0, n => n + 1) yields
\* 0, 1, 2, ...
C26_Along ==
    \A t \in Traversals :
        (each.src.kind = "along" /\ each.by.name = "none") =>
            LET tr == each.runs[t] IN
            /\ \A k \in 1..Len(tr.out) :
                  tr.out[k] = Iterated(each.src.start, each.src.next, k)
            /\ tr.st = "ready" => Len(tr.out) = tr.requests
            /\ tr.st = "done" =>
                  /\ tr.out # <<>>
                  /\ Falsy(NextOf(each.src.next, tr.out[Len(tr.out)]))

\* What holds of C26: the same when start is not falsy.
AlongFromTruthy == ~Falsy(each.src.start) => C26_Along

\* C30 as claimed: once an end-mode slice has reached its first match, it
\* makes no further call of next() on its source: the calls it has made are
\* those for the items up to the match.
C30_EndStops ==
    \A t \in Traversals :
        LET tr == each.runs[t] IN
        (each.by.name = "when" /\ ~StartOf(each.by) /\ tr.flag) =>
            /\ tr.pulls = tr.i
            /\ tr.st # "hung"

====
